---- MODULE Spec2Model ----
(***************************************************************************)
(* Model of python/examples/SegyIO_Shots.py: the single-pass scan of the   *)
(* trace headers that builds the shot dictionary (SegyIO_Shots.__init__),  *)
(* and the accessors get_shot and __getitem__ (integer and slice keys).    *)
(*                                                                         *)
(* Python values are represented as follows.                               *)
(*   None / an int          <<>> / <<n>>                                   *)
(*   a tuple (x, y)         <<x, y>>                                       *)
(*   a list                 a sequence (Python index i is TLA+ index i+1)  *)
(*   a dict                 a sequence of [key, val] items in insertion    *)
(*                          order (assigning to a present key keeps its    *)
(*                          place)                                         *)
(*   a numpy 2-d array      a sequence of rows, each a sequence of samples *)
(***************************************************************************)
EXTENDS Integers, Sequences, FiniteSets, TLC

\* ------------------------------------------------------------------ bounds
MaxTraces == 3

MaxSamples == 2

\* ------------------------------------------------------------ input values
\* FieldRecord values that occur in the headers, and one that never does.
Idents == {7, 8, 9}

UnseenIdents == {5}

SourceXYs == {<<1, 5>>, <<2, 6>>}

GroupXYs == {<<10, 30>>, <<11, 31>>}

\* Integer keys handed to __getitem__: with at most 3 shots this covers
\* every k with -2n-1 <= k <= n+1.
IntKeys == -7 .. 4

\* start/stop/step of the slices handed to __getitem__ (None is <<>>).
SliceBounds == {<<>>} \cup {<<b>> : b \in {-4, -2, -1, 0, 1, 2, 3}}

SliceSteps == {<<>>} \cup {<<s>> : s \in {-2, -1, 0, 1, 2}}

VARIABLES
  headers,        \* f.header[:], the trace headers of the file, in file order
  num_samples,    \* self.num_samples
  pc,             \* "scan" | "ready" | "open" | "read" | "exit" | "done"
  curr_ident,     \* __init__: curr_ident (<<>> is None)
  pos_in_file,    \* __init__: pos_in_file
  shots,          \* self.shots
  records,        \* self.records
  num_shots,      \* self.num_shots
  handles,        \* number of segyio file handles currently open
  op,             \* the accessor called last: "none" | "get_shot" | "int" | "slice"
  key,            \* __getitem__: key as passed (<<k>> or <<start, stop, step>>)
  FieldRecord,    \* get_shot: FieldRecord
  pending,        \* __getitem__: the part of range(...) not yet iterated
  shot_dict,      \* __getitem__: shot_dict
  retrieved_shot, \* get_shot: retrieved_shot
  reads,          \* the trace slices [a:b] requested from segyio in this call
  failed,         \* get_shot: an exception is propagating out of the with block
  result          \* what the last accessor call returned or raised

vars == <<headers, num_samples, pc, curr_ident, pos_in_file, shots, records,
          num_shots, handles, op, key, FieldRecord, pending, shot_dict,
          retrieved_shot, reads, failed, result>>

scanVars == <<curr_ident, pos_in_file, shots, records, num_shots>>

callVars == <<op, key, FieldRecord, pending, shot_dict, retrieved_shot,
              reads, failed, result>>

\* ------------------------------------------------------- Python dict, list
HasKey(d, k) == \E i \in 1..Len(d) : d[i].key = k

DictGet(d, k) == d[CHOOSE i \in 1..Len(d) : d[i].key = k].val

\* d[k] = v
DictSet(d, k, v) ==
  IF HasKey(d, k)
  THEN [i \in 1..Len(d) |-> IF d[i].key = k THEN [key |-> k, val |-> v] ELSE d[i]]
  ELSE Append(d, [key |-> k, val |-> v])

\* list(d.keys())
DictKeys(d) == [i \in 1..Len(d) |-> d[i].key]

\* len(d) counting one item too many.
DictLen_OffByOne(d) == Len(d) + 1

\* len(d)
DictLen(d) == Len(d)

\* l[i] raises IndexError unless -len(l) <= i < len(l)
ListIndexOk(l, i) == -Len(l) <= i /\ i < Len(l)

\* l[i], negative i counting from the end
ListGet(l, i) == IF i < 0 THEN l[Len(l) + i + 1] ELSE l[i + 1]

\* WithExit keeping the handle open when an exception leaves the block.
WithExit_LeakOnError(h, exc) == IF exc THEN h ELSE h - 1

\* Leaving "with segyio.open(...) as f": the handle is closed whether the
\* block ends normally or an exception exc propagates out of it.
WithExit(h, exc) == h - 1

\* ---------------------------------------------------------------- __init__
\* NewShot with the position taken after the cursor has moved on.
NewShot_PosAfter(trace, pos) ==
  [Trace_Position |-> pos + 1,
   Num_Traces     |-> 1,
   Source_XY      |-> <<trace.SourceX, trace.SourceY>>,
   Receiver_XYs   |-> <<>>]

\* The dictionary stored for a trace that starts a new shot.
NewShot(trace, pos) ==
  [Trace_Position |-> pos,
   Num_Traces     |-> 1,
   Source_XY      |-> <<trace.SourceX, trace.SourceY>>,
   Receiver_XYs   |-> <<>>]

\* IncTraces with the increment lost.
IncTraces_Lost(shot) == shot

\* self.shots[curr_ident]['Num_Traces'] += 1
IncTraces(shot) == [shot EXCEPT !.Num_Traces = @ + 1]

\* AppendReceiver inserting at the front of the list.
AppendReceiver_Front(shot, trace) ==
  [shot EXCEPT !.Receiver_XYs = <<<<trace.GroupX, trace.GroupY>>>> \o @]

\* self.shots[curr_ident]['Receiver_XYs'].append((GroupX, GroupY))
AppendReceiver(shot, trace) ==
  [shot EXCEPT !.Receiver_XYs = Append(@, <<trace.GroupX, trace.GroupY>>)]

\* ScanTrace adding to the descriptor of an identifier met before, whether
\* or not the previous trace had that identifier.
ScanTrace_Merge(d, ident, pos, trace) ==
  LET id    == trace.FieldRecord
      d1    == IF ~HasKey(d, id)
               THEN DictSet(d, id, NewShot(trace, pos))
               ELSE DictSet(d, id, IncTraces(DictGet(d, id)))
  IN  DictSet(d1, id, AppendReceiver(DictGet(d1, id), trace))

\* One iteration of "for trace in file_headers".
ScanTrace(d, ident, pos, trace) ==
  LET new   == ident # <<trace.FieldRecord>>
      id    == trace.FieldRecord
      d1    == IF new
               THEN DictSet(d, id, NewShot(trace, pos))
               ELSE DictSet(d, id, IncTraces(DictGet(d, id)))
  IN  DictSet(d1, id, AppendReceiver(DictGet(d1, id), trace))

Header(id, s, g) ==
  [FieldRecord |-> id, SourceX |-> s[1], SourceY |-> s[2],
   GroupX |-> g[1], GroupY |-> g[2]]

HeaderSet == {Header(id, s, g) : id \in Idents, s \in SourceXYs, g \in GroupXYs}

NoResult == [kind |-> "none", value |-> <<>>]

\* The state on entering the header loop of __init__, the file being open.
InitRest ==
  /\ num_samples \in 1..MaxSamples
  /\ pc = "scan"
  /\ curr_ident = <<>>
  /\ pos_in_file = 0
  /\ shots = <<>>
  /\ records = <<>>
  /\ num_shots = 0
  /\ handles = 1
  /\ op = "none"
  /\ key = <<>>
  /\ FieldRecord = 0
  /\ pending = <<>>
  /\ shot_dict = <<>>
  /\ retrieved_shot = <<>>
  /\ reads = <<>>
  /\ failed = FALSE
  /\ result = NoResult

\* Any header stream of at most MaxTraces traces.
InitBuild ==
  /\ headers \in UNION {[1..n -> HeaderSet] : n \in 0..MaxTraces}
  /\ InitRest

ScanHeader ==
  /\ pc = "scan"
  /\ pos_in_file < Len(headers)
  /\ LET trace == headers[pos_in_file + 1]
     IN  /\ shots' = ScanTrace(shots, curr_ident, pos_in_file, trace)
         /\ curr_ident' = <<trace.FieldRecord>>
  /\ pos_in_file' = pos_in_file + 1
  /\ UNCHANGED <<headers, num_samples, pc, records, num_shots, handles>>
  /\ UNCHANGED callVars

\* The loop is exhausted: records, num_shots, and the with block is left.
ScanFinish ==
  /\ pc = "scan"
  /\ pos_in_file = Len(headers)
  /\ records' = DictKeys(shots)
  /\ num_shots' = DictLen(shots)
  /\ handles' = WithExit(handles, FALSE)
  /\ pc' = "ready"
  /\ UNCHANGED <<headers, num_samples, curr_ident, pos_in_file, shots>>
  /\ UNCHANGED callVars

NextBuild == ScanHeader \/ ScanFinish

SpecBuild == InitBuild /\ [][NextBuild]_vars

\* ---------------------------------------------------------------- get_shot
\* The samples segyio returns for the trace at file offset t (0-based): the
\* file's content, different for every trace and never all zero.
TraceData(t) == [j \in 1..num_samples |-> 10 * (t + 1) + j]

\* SliceIndices taking the last index, not the length, as the upper limit of
\* a forward slice.
SliceIndices_Short(start, stop, step, length) ==
  LET st    == IF step = <<>> THEN 1 ELSE step[1]
      neg   == st < 0
      lower == IF neg THEN -1 ELSE 0
      upper == length - 1
      Adj(v, dflt) ==
        IF v = <<>> THEN dflt
        ELSE IF v[1] < 0
             THEN (IF v[1] + length < lower THEN lower ELSE v[1] + length)
             ELSE (IF v[1] > upper THEN upper ELSE v[1])
  IN  <<Adj(start, IF neg THEN upper ELSE lower),
        Adj(stop, IF neg THEN lower ELSE upper),
        st>>

\* slice(start, stop, step).indices(length), for step # 0
SliceIndices(start, stop, step, length) ==
  LET st    == IF step = <<>> THEN 1 ELSE step[1]
      neg   == st < 0
      lower == IF neg THEN -1 ELSE 0
      upper == IF neg THEN length - 1 ELSE length
      Adj(v, dflt) ==
        IF v = <<>> THEN dflt
        ELSE IF v[1] < 0
             THEN (IF v[1] + length < lower THEN lower ELSE v[1] + length)
             ELSE (IF v[1] > upper THEN upper ELSE v[1])
  IN  <<Adj(start, IF neg THEN upper ELSE lower),
        Adj(stop, IF neg THEN lower ELSE upper),
        st>>

\* list(range(start, stop, step)), for step # 0
RangeList(start, stop, step) ==
  LET n == IF step > 0
           THEN (IF start < stop THEN (stop - start - 1) \div step + 1 ELSE 0)
           ELSE (IF start > stop THEN (start - stop - 1) \div (-step) + 1 ELSE 0)
  IN  [k \in 1..n |-> start + (k - 1) * step]

\* f.trace[a:b]: the traces segyio yields for the slice, in file order
TraceSlice(a, b) ==
  LET ix == SliceIndices(<<a>>, <<b>>, <<>>, Len(headers))
      r  == RangeList(ix[1], ix[2], ix[3])
  IN  [k \in 1..Len(r) |-> TraceData(r[k])]

\* np.zeros((rows, cols))
Zeros(rows, cols) == [i \in 1..rows |-> [j \in 1..cols |-> 0]]

\* for i, trace in enumerate(shot_traces): retrieved_shot[i] = trace
FillRows(arr, traces) ==
  [i \in 1..Len(arr) |-> IF i <= Len(traces) THEN traces[i] ELSE arr[i]]

\* ShotRange with the last trace of the shot left out.
ShotRange_Short(shot) ==
  <<shot.Trace_Position, shot.Trace_Position + shot.Num_Traces - 1>>

\* The bounds [a:b] of the trace slice get_shot requests.
ShotRange(shot) ==
  <<shot.Trace_Position, shot.Trace_Position + shot.Num_Traces>>


\* get_shot up to the with statement: the lookups and np.zeros.
get_shot_enter(id) ==
  IF HasKey(shots, id)
  THEN /\ FieldRecord' = id
       /\ retrieved_shot' = Zeros(DictGet(shots, id).Num_Traces, num_samples)
       /\ result' = NoResult
       /\ pc' = "open"
  ELSE /\ FieldRecord' = id
       /\ retrieved_shot' = <<>>
       /\ result' = [kind |-> "KeyError", value |-> <<>>]
       /\ pc' = "done"

\* ident = self.records[i], then get_shot(ident)
get_item_enter(i) ==
  IF ListIndexOk(records, i)
  THEN get_shot_enter(ListGet(records, i))
  ELSE /\ result' = [kind |-> "IndexError", value |-> <<>>]
       /\ pc' = "done"
       /\ UNCHANGED <<FieldRecord, retrieved_shot>>

\* A call of get_shot(id) from outside the class.
CallGetShot(id) ==
  /\ pc = "ready"
  /\ op' = "get_shot"
  /\ key' = <<>>
  /\ pending' = <<>>
  /\ shot_dict' = <<>>
  /\ reads' = <<>>
  /\ failed' = FALSE
  /\ get_shot_enter(id)
  /\ UNCHANGED <<headers, num_samples, handles>>
  /\ UNCHANGED scanVars

\* segyio.open(self.filename, ignore_geometry=True) succeeds.
OpenFile ==
  /\ pc = "open"
  /\ handles' = handles + 1
  /\ pc' = "read"
  /\ UNCHANGED <<headers, num_samples, op, key, FieldRecord, pending,
                 shot_dict, retrieved_shot, reads, failed, result>>
  /\ UNCHANGED scanVars

\* segyio.open raises (the file is gone or unreadable): no handle is
\* acquired, the with block is not entered, no trace slice is requested, and
\* the exception leaves get_shot and its caller.
OpenFails ==
  /\ pc = "open"
  /\ result' = [kind |-> "IOError", value |-> <<>>]
  /\ pc' = "done"
  /\ UNCHANGED <<headers, num_samples, handles, op, key, FieldRecord, pending,
                 shot_dict, retrieved_shot, reads, failed>>
  /\ UNCHANGED scanVars

\* The body of the with block, every trace being read.
ReadTraces ==
  /\ pc = "read"
  /\ LET rg == ShotRange(DictGet(shots, FieldRecord))
     IN  /\ reads' = Append(reads, rg)
         /\ retrieved_shot' = FillRows(retrieved_shot, TraceSlice(rg[1], rg[2]))
  /\ pc' = "exit"
  /\ UNCHANGED <<headers, num_samples, handles, op, key, FieldRecord, pending,
                 shot_dict, failed, result>>
  /\ UNCHANGED scanVars

\* The body of the with block, segyio raising while the traces are read.
ReadFails ==
  /\ pc = "read"
  /\ reads' = Append(reads, ShotRange(DictGet(shots, FieldRecord)))
  /\ failed' = TRUE
  /\ pc' = "exit"
  /\ UNCHANGED <<headers, num_samples, handles, op, key, FieldRecord, pending,
                 shot_dict, retrieved_shot, result>>
  /\ UNCHANGED scanVars

\* ------------------------------------------------------------- __getitem__
\* NormalizeKey counting from the last item rather than from the end.
NormalizeKey_OffByOne(k, n) == IF k < 0 THEN k + n - 1 ELSE k

\* if key < 0: key += self.num_shots
NormalizeKey(k, n) == IF k < 0 THEN k + n ELSE k

\* if key > self.num_shots: raise IndexError
KeyOutOfRange(k, n) == k > n

\* self[k] for an int k
GetItemInt(k) ==
  /\ pc = "ready"
  /\ op' = "int"
  /\ key' = <<k>>
  /\ pending' = <<>>
  /\ shot_dict' = <<>>
  /\ reads' = <<>>
  /\ failed' = FALSE
  /\ LET k2 == NormalizeKey(k, num_shots)
     IN  IF KeyOutOfRange(k2, num_shots)
         THEN /\ result' = [kind |-> "IndexError", value |-> <<>>]
              /\ pc' = "done"
              /\ UNCHANGED <<FieldRecord, retrieved_shot>>
         ELSE get_item_enter(k2)
  /\ UNCHANGED <<headers, num_samples, handles>>
  /\ UNCHANGED scanVars

\* self[start:stop:step]
GetItemSlice(start, stop, step) ==
  /\ pc = "ready"
  /\ op' = "slice"
  /\ key' = <<start, stop, step>>
  /\ shot_dict' = <<>>
  /\ reads' = <<>>
  /\ failed' = FALSE
  /\ IF step = <<0>>
     THEN /\ result' = [kind |-> "ValueError", value |-> <<>>]
          /\ pending' = <<>>
          /\ pc' = "done"
          /\ UNCHANGED <<FieldRecord, retrieved_shot>>
     ELSE LET ix == SliceIndices(start, stop, step, num_shots)
              r  == RangeList(ix[1], ix[2], ix[3])
          IN  /\ pending' = r
              /\ IF r = <<>>
                 THEN /\ result' = [kind |-> "dict", value |-> <<>>]
                      /\ pc' = "done"
                      /\ UNCHANGED <<FieldRecord, retrieved_shot>>
                 ELSE get_item_enter(Head(r))
  /\ UNCHANGED <<headers, num_samples, handles>>
  /\ UNCHANGED scanVars

\* The with block of get_shot is left and get_shot returns to its caller,
\* which stores the shot and returns or goes on to the next one.
ExitWith ==
  /\ pc = "exit"
  /\ handles' = WithExit(handles, failed)
  /\ IF failed
     THEN /\ result' = [kind |-> "IOError", value |-> <<>>]
          /\ pc' = "done"
          /\ UNCHANGED <<FieldRecord, pending, shot_dict, retrieved_shot>>
     ELSE IF op = "get_shot"
     THEN /\ result' = [kind |-> "array", value |-> retrieved_shot]
          /\ pc' = "done"
          /\ UNCHANGED <<FieldRecord, pending, shot_dict, retrieved_shot>>
     ELSE /\ shot_dict' = DictSet(shot_dict, FieldRecord, retrieved_shot)
          /\ IF op = "int" \/ Len(pending) <= 1
             THEN /\ pending' = <<>>
                  /\ result' = [kind |-> "dict", value |-> shot_dict']
                  /\ pc' = "done"
                  /\ UNCHANGED <<FieldRecord, retrieved_shot>>
             ELSE /\ pending' = Tail(pending)
                  /\ get_item_enter(pending[2])
  /\ UNCHANGED <<headers, num_samples, op, key, reads, failed>>
  /\ UNCHANGED scanVars

\* The caller drops what the call returned or raised; the object is ready
\* for its next call.
NextCall ==
  /\ pc = "done"
  /\ pc' = "ready"
  /\ op' = "none"
  /\ key' = <<>>
  /\ FieldRecord' = 0
  /\ pending' = <<>>
  /\ shot_dict' = <<>>
  /\ retrieved_shot' = <<>>
  /\ reads' = <<>>
  /\ failed' = FALSE
  /\ result' = NoResult
  /\ UNCHANGED <<headers, num_samples, handles>>
  /\ UNCHANGED scanVars

\* A header stream of at most MaxTraces traces in which every trace has its
\* own source and receiver coordinates.
Init ==
  /\ headers \in
       UNION {{[t \in 1..n |-> Header(f[t], <<t, t + 4>>, <<10 + t, 30 + t>>)] :
                 f \in [1..n -> Idents]} : n \in 0..MaxTraces}
  /\ InitRest

Next ==
  \/ ScanHeader
  \/ ScanFinish
  \/ \E id \in Idents \cup UnseenIdents : CallGetShot(id)
  \/ \E k \in IntKeys : GetItemInt(k)
  \/ \E start \in SliceBounds, stop \in SliceBounds, step \in SliceSteps :
       GetItemSlice(start, stop, step)
  \/ OpenFile
  \/ OpenFails
  \/ ReadTraces
  \/ ReadFails
  \/ ExitWith
  \/ NextCall

Spec == Init /\ [][Next]_vars

\* ======================================================== the properties
NumTraces == Len(headers)

FR(t) == headers[t].FieldRecord

\* Trace t (1-based) is the first of a run of equal FieldRecord values.
IsRunStart(t) == t = 1 \/ FR(t - 1) # FR(t)

\* The number of traces of the run that starts at trace s.
RunLen(s) ==
  Cardinality({e \in s..NumTraces : \A u \in s..e : FR(u) = FR(s)})

\* The first trace of the last run of identifier id.
LastRunStart(id) ==
  CHOOSE s \in 1..NumTraces :
    /\ FR(s) = id
    /\ IsRunStart(s)
    /\ \A s2 \in (s + 1)..NumTraces : ~(FR(s2) = id /\ IsRunStart(s2))

\* Trace t belongs to the last run of its identifier.
InLastRun(t) == \A u \in t..NumTraces : FR(u) = FR(t) => \A w \in t..u : FR(w) = FR(t)

\* Traces with the same identifier are contiguous in the file.
Contiguous == \A t \in 1..NumTraces : InLastRun(t)

RECURSIVE SumNumTraces(_)
SumNumTraces(d) ==
  IF d = <<>> THEN 0 ELSE Head(d).val.Num_Traces + SumNumTraces(Tail(d))

Shot(id) == DictGet(shots, id)

\* The rows of the file's traces [Trace_Position, Trace_Position + Num_Traces)
\* of the descriptor stored under id.
ShotMatrix(id) ==
  [k \in 1..Shot(id).Num_Traces |-> TraceData(Shot(id).Trace_Position + k - 1)]

\* C1: with N >= 1 traces and same-identifier traces contiguous, the finished
\* index has sum(Num_Traces) = N, and in the order of records the ranges
\* [Trace_Position, Trace_Position + Num_Traces) tile [0, N): the first starts
\* at 0, each next starts where the previous ends, the last ends at N.
C1_Partition ==
  (pc = "ready" /\ NumTraces >= 1 /\ Contiguous) =>
    /\ SumNumTraces(shots) = NumTraces
    /\ num_shots >= 1
    /\ Shot(records[1]).Trace_Position = 0
    /\ \A i \in 1..(num_shots - 1) :
         Shot(records[i + 1]).Trace_Position =
           Shot(records[i]).Trace_Position + Shot(records[i]).Num_Traces
    /\ Shot(records[num_shots]).Trace_Position
         + Shot(records[num_shots]).Num_Traces = NumTraces

C1_Witness ==
  /\ pc = "ready"
  /\ Contiguous
  /\ NumTraces = 3
  /\ num_shots = 2
  /\ Shot(records[1]).Num_Traces = 2

\* C3 as stated: construction on a stream of zero traces never completes.
C3_Original == NumTraces = 0 => pc = "scan"

\* C3 amended: construction on a stream of zero traces completes, with an
\* empty index: no descriptors, no records, num_shots = 0, the file closed.
C3_EmptyIndex ==
  /\ (NumTraces = 0 /\ pc = "scan") => ENABLED ScanFinish
  /\ (NumTraces = 0 /\ pc = "ready") =>
       shots = <<>> /\ records = <<>> /\ num_shots = 0 /\ handles = 0

C3_Witness == NumTraces = 0 /\ pc = "ready" /\ num_shots = 0

\* C4 as stated: for every header stream the finished index has
\* sum(Num_Traces) = number of traces scanned.
C4_Original == pc = "ready" => SumNumTraces(shots) = NumTraces

\* C4 amended: the finished index has sum(Num_Traces) = the number of traces
\* that belong to the last run of their identifier; this is the number of
\* traces scanned exactly when same-identifier traces are contiguous, and
\* less otherwise.
C4_SumLastRuns ==
  pc = "ready" =>
    /\ SumNumTraces(shots) = Cardinality({t \in 1..NumTraces : InLastRun(t)})
    /\ SumNumTraces(shots) <= NumTraces
    /\ SumNumTraces(shots) = NumTraces <=> Contiguous

C4_Witness ==
  /\ pc = "ready"
  /\ ~Contiguous
  /\ NumTraces = 3
  /\ SumNumTraces(shots) = 2

\* C5: after every step of the scan and in the finished index, every
\* descriptor holds Num_Traces receiver locations, the k-th being
\* (GroupX, GroupY) of the trace at offset Trace_Position + k.
C5_Receivers ==
  \A i \in 1..Len(shots) :
    LET d == shots[i].val
    IN  /\ Len(d.Receiver_XYs) = d.Num_Traces
        /\ d.Trace_Position + d.Num_Traces <= pos_in_file
        /\ \A k \in 1..d.Num_Traces :
             d.Receiver_XYs[k] = <<headers[d.Trace_Position + k].GroupX,
                                   headers[d.Trace_Position + k].GroupY>>

C5_Witness ==
  /\ pc = "scan"
  /\ pos_in_file = 2
  /\ NumTraces = 3
  /\ Len(shots) = 1
  /\ shots[1].val.Num_Traces = 2
  /\ shots[1].val.Receiver_XYs[1] # shots[1].val.Receiver_XYs[2]

\* The 0-based ordinal an in-range integer key k stands for.
Ordinal(k) == IF k < 0 THEN k + num_shots ELSE k

\* C2 as stated: self[k] raises IndexError, and returns no shot, for every
\* integer k outside [-num_shots, num_shots - 1].
C2_Original ==
  (pc = "done" /\ op = "int"
     /\ (key[1] < -num_shots \/ key[1] > num_shots - 1)) =>
    result.kind = "IndexError"

\* C6: for every k in [0, num_shots), self[k] returns records[k] with the
\* matrix of the traces of the descriptor of records[k] (what get_shot
\* returns for it, C7), and for every k in [-num_shots, -1] it returns what
\* self[k + num_shots] returns.
C6_Ordinal ==
  (pc = "done" /\ op = "int" /\ result.kind # "IOError"
     /\ -num_shots <= key[1] /\ key[1] <= num_shots - 1) =>
    LET id == records[Ordinal(key[1]) + 1]
    IN  result = [kind |-> "dict",
                  value |-> <<[key |-> id, val |-> ShotMatrix(id)]>>]

C6_Witness ==
  /\ pc = "done"
  /\ op = "int"
  /\ key = <<-2>>
  /\ num_shots = 3
  /\ result.kind = "dict"
  /\ result.value[1].key = records[2]

\* C7: for an identifier present in the index, a get_shot that returns has
\* requested exactly one trace slice, [Trace_Position : Trace_Position +
\* Num_Traces] of its descriptor, which lies within the file, and returns a
\* matrix of Num_Traces rows by num_samples columns whose row k is the trace
\* at offset Trace_Position + k; a get_shot that the data source makes fail
\* has requested that one slice (the read failed) or none (the open failed).
C7_GetShot ==
  (pc = "done" /\ op = "get_shot" /\ HasKey(shots, FieldRecord)) =>
    LET d  == Shot(FieldRecord)
        rg == <<d.Trace_Position, d.Trace_Position + d.Num_Traces>>
    IN  /\ d.Trace_Position + d.Num_Traces <= NumTraces
        /\ result.kind \in {"array", "IOError"}
        /\ result.kind = "IOError" => reads \in {<<>>, <<rg>>}
        /\ result.kind = "array" =>
             /\ reads = <<rg>>
             /\ Len(result.value) = d.Num_Traces
             /\ \A k \in 1..d.Num_Traces :
                  /\ Len(result.value[k]) = num_samples
                  /\ result.value[k] = TraceData(d.Trace_Position + k - 1)

C7_Witness ==
  /\ pc = "done"
  /\ op = "get_shot"
  /\ result.kind = "array"
  /\ Len(result.value) = 2
  /\ Shot(FieldRecord).Trace_Position = 1

Clamp(x, lo, hi) == IF x < lo THEN lo ELSE IF x > hi THEN hi ELSE x

\* A slice bound v against a sequence of n items: None is dflt, a negative
\* bound counts from the end, and the outcome is clamped to lo..hi.
Bound(v, n, dflt, lo, hi) ==
  IF v = <<>> THEN dflt
  ELSE Clamp(IF v[1] < 0 THEN v[1] + n ELSE v[1], lo, hi)

\* The positions a slice start:stop:step selects from a sequence of n items.
SlicePositions(start, stop, step, n) ==
  LET st == IF step = <<>> THEN 1 ELSE step[1]
  IN  IF st > 0
      THEN LET lo == Bound(start, n, 0, 0, n)
               hi == Bound(stop, n, n, 0, n)
           IN  {i \in 0..(n - 1) : lo <= i /\ i < hi /\ (i - lo) % st = 0}
      ELSE LET hi == Bound(start, n, n - 1, -1, n - 1)
               lo == Bound(stop, n, -1, -1, n - 1)
           IN  {i \in 0..(n - 1) : lo < i /\ i <= hi /\ (hi - i) % (-st) = 0}

\* The members of S in increasing (up) or decreasing order.
InOrder(S, up) ==
  [j \in 1..Cardinality(S) |->
     CHOOSE x \in S :
       Cardinality({y \in S : IF up THEN y < x ELSE y > x}) = j - 1]

\* C8: self[start:stop:step] returns a dict whose keys are records[i] for
\* exactly the positions i the slice selects from a sequence of num_shots
\* items, in the order of the slice, each with the matrix of its descriptor's
\* traces; self[0:num_shots:1] has all of records as its keys.
C8_Slice ==
  (pc = "done" /\ op = "slice" /\ key[3] # <<0>> /\ result.kind # "IOError") =>
    LET up == key[3] = <<>> \/ key[3][1] > 0
        P  == InOrder(SlicePositions(key[1], key[2], key[3], num_shots), up)
    IN  /\ result.kind = "dict"
        /\ result.value =
             [j \in 1..Len(P) |->
                [key |-> records[P[j] + 1], val |-> ShotMatrix(records[P[j] + 1])]]
        /\ key = <<<<0>>, <<num_shots>>, <<1>>>> =>
             DictKeys(result.value) = records

C8_Witness ==
  /\ pc = "done"
  /\ op = "slice"
  /\ key = <<<<>>, <<-4>>, <<-2>>>>
  /\ num_shots = 3
  /\ result.kind = "dict"
  /\ DictKeys(result.value) = <<records[3], records[1]>>

\* C9: at most one file handle is open at any time, one is open exactly
\* while a with block is being executed, and none is open once a call has
\* returned or raised (an unknown identifier, a failed open, a failed read)
\* or when no call is in progress.
C9_Handles ==
  /\ handles \in {0, 1}
  /\ handles = 1 <=> pc \in {"scan", "read", "exit"}
  /\ pc \in {"ready", "done", "open"} => handles = 0

C9_Witness ==
  /\ pc = "done"
  /\ op = "slice"
  /\ result.kind = "IOError"
  /\ Len(reads) = 2
  /\ handles = 0

\* The identifiers met by the scan so far.
Scanned == {FR(t) : t \in 1..pos_in_file}

\* The traces (0-based offsets) of runs that a later run of the same
\* identifier follows.
EarlierRunTraces == {t \in 0..(NumTraces - 1) : ~InLastRun(t + 1)}

\* The rows of every matrix the last call returned.
ReturnedRows ==
  IF result.kind = "array" THEN {result.value[k] : k \in 1..Len(result.value)}
  ELSE IF result.kind = "dict"
  THEN UNION {{result.value[i].val[k] : k \in 1..Len(result.value[i].val)} :
                i \in 1..Len(result.value)}
  ELSE {}

\* The descriptor of every identifier of the file is that of the
\* identifier's last run: its position, length, source and receivers.
LastRunWins ==
  \A id \in {FR(t) : t \in 1..NumTraces} :
    LET s == LastRunStart(id)
        d == Shot(id)
    IN  /\ d.Trace_Position = s - 1
        /\ d.Num_Traces = RunLen(s)
        /\ d.Source_XY = <<headers[s].SourceX, headers[s].SourceY>>
        /\ d.Receiver_XYs =
             [k \in 1..RunLen(s) |->
                <<headers[s + k - 1].GroupX, headers[s + k - 1].GroupY>>]

\* C10 as stated: the last occurrence wins, and the traces of the earlier
\* runs remain reachable by ordinal: some ordinal's descriptor covers them.
C10_Original ==
  pc \in {"ready", "done"} =>
    /\ LastRunWins
    /\ \A t \in EarlierRunTraces :
         \E i \in 1..num_shots :
           /\ Shot(records[i]).Trace_Position <= t
           /\ t < Shot(records[i]).Trace_Position + Shot(records[i]).Num_Traces

\* C10 amended: the last occurrence wins, and the traces of the earlier runs
\* are returned by no access to the finished index: not by get_shot, not by
\* an integer key, not by a slice; no ordinal's descriptor covers them.
C10_LastRunWins ==
  pc \in {"ready", "done"} =>
    /\ LastRunWins
    /\ \A t \in EarlierRunTraces :
         /\ TraceData(t) \notin ReturnedRows
         /\ \A i \in 1..num_shots :
              \/ t < Shot(records[i]).Trace_Position
              \/ t >= Shot(records[i]).Trace_Position + Shot(records[i]).Num_Traces

C10_Witness ==
  /\ pc = "done"
  /\ op = "int"
  /\ key = <<0>>
  /\ NumTraces = 3
  /\ FR(1) = FR(3)
  /\ FR(2) # FR(1)
  /\ result.kind = "dict"
  /\ result.value[1].key = FR(1)
  /\ result.value[1].val = <<TraceData(2)>>

====
